---- MODULE Spec2Model ----
(***************************************************************************)
(* Model of packages/api/src/services/subscriptions.ts: the subscription   *)
(* store, saveSubscription, unsubscribe and unsubscribeAll, run as         *)
(* concurrent asynchronous calls that suspend at every await.              *)
(***************************************************************************)
EXTENDS Integers, Sequences, FiniteSets, TLC

VARIABLES rows, nextId, call, started, last, emails

vars == <<rows, nextId, call, started, last, emails>>

(* ------------------------------ bounds -------------------------------- *)

\* number of calls (saveSubscription / unsubscribe / unsubscribeAll) started in a run
MaxCalls == 2
\* number of subscription rows in the store when the run starts
InitRows == 1

(* ----------------------------- value sets ------------------------------ *)

\* the slots in which asynchronous calls run concurrently
Calls == {"c1", "c2"}

Users == {"u1", "u2"}
Names == {"n1", "n2"}
Types == {"Newsletter", "Rss"}

\* NewsletterEmail entities: id -> owning user; 0 stands for "no NewsletterEmail"
EmailIds == {1, 2}
EmailUser(e) == IF e = 1 THEN "u1" ELSE "u2"
EmailAddress(e) == IF e = 1 THEN "u1@inbox" ELSE "u2@inbox"

\* strings are sequences of tokens; the empty sequence is an absent (falsy) value
NoStr == <<>>
MailTos == { NoStr,
             <<"a", "@", "b">>,
             <<"a", "@", "b", "?", "subject=Bye">>,
             <<"a", "b">> }

\* the unsubscribeMailTo values of the rows the store holds before the run
InitMailTos == MailTos \ { <<"a", "@", "b">> }

(* ------------------- parseUnsubscribeMailTo (25-39) -------------------- *)

\* position of the first "?" of s, 0 when there is none
RECURSIVE QueryPos(_, _)
QueryPos(s, i) ==
  IF i > Len(s) THEN 0 ELSE IF s[i] = "?" THEN i ELSE QueryPos(s, i + 1)

\* URL.search of mailto://s : from the first "?" on, empty when nothing follows it
Search(s) ==
  LET q == QueryPos(s, 1)
  IN IF q = 0 \/ q = Len(s) THEN <<>> ELSE SubSeq(s, q, Len(s))

\* searchParams.get('subject') || 'Unsubscribe'
ParsedSubject(s) ==
  IF \E i \in 1..Len(Search(s)) : Search(s)[i] = "subject=Bye"
  THEN "Bye" ELSE "Unsubscribe"

\* unsubscribeMailTo.replace(parsed.search, '')
ParsedTo(s) ==
  IF Search(s) = <<>> THEN s ELSE SubSeq(s, 1, QueryPos(s, 1) - 1)

\* ParseOk with a fault: the address is only required to be non-empty
ParseOk_NoAtCheck(s) == ParsedTo(s) # <<>>

\* the address validation: parse throws unless to is non-empty and includes '@'
ParseOk(s) ==
  /\ ParsedTo(s) # <<>>
  /\ \E i \in 1..Len(ParsedTo(s)) : ParsedTo(s)[i] = "@"

(* ------------------------- the subscription store ---------------------- *)

\* rows is a function from the ids of the stored Subscription rows to the rows
Row(n, u, ty, st, mail, http, ic, at, e) ==
  [name |-> n, user |-> u, type |-> ty, status |-> st,
   unsubscribeMailTo |-> mail, unsubscribeHttpUrl |-> http, icon |-> ic,
   lastFetchedAt |-> at, newsletterEmail |-> e]

\* rows the store may hold before the run: Newsletter and Rss rows of user u1
InitRowSet ==
  { Row(n, "u1", ty, "Active", m, NoStr, NoStr, 0, e) :
      n \in Names, ty \in Types, m \in InitMailTos, e \in {0, 1} }

\* ids are opaque: the rows before the run are numbered in one fixed order
RowRank(r) ==
  (IF r.name = "n1" THEN 0 ELSE 12) + (IF r.type = "Newsletter" THEN 0 ELSE 6)
  + (IF r.unsubscribeMailTo = NoStr THEN 0
     ELSE IF ParseOk(r.unsubscribeMailTo) THEN 2 ELSE 4)
  + r.newsletterEmail


\* the store's unique constraint on (user, name, type)
SameKey(r1, r2) ==
  r1.user = r2.user /\ r1.name = r2.name /\ r1.type = r2.type

UniqueKeys(rs) ==
  \A i, j \in DOMAIN rs : SameKey(rs[i], rs[j]) => i = j

\* Matching with a fault: the lookup does not filter by name
Matching_AnyName(rs, n, u) ==
  { i \in DOMAIN rs : rs[i].user = u /\ rs[i].type = "Newsletter" }

\* findOneBy({name, user: {id: userId}, type: Newsletter})
Matching(rs, n, u) ==
  { i \in DOMAIN rs :
      rs[i].name = n /\ rs[i].user = u /\ rs[i].type = "Newsletter" }

\* Bound with a fault: only the Newsletter rows are fetched
Bound_NewsletterOnly(rs, e) ==
  { i \in DOMAIN rs : /\ rs[i].user = EmailUser(e)
                      /\ rs[i].newsletterEmail = e
                      /\ rs[i].type = "Newsletter" }

\* find({where: {user, newsletterEmail}}): the ids of the rows bound to e
Bound(rs, e) ==
  { i \in DOMAIN rs : rs[i].user = EmailUser(e) /\ rs[i].newsletterEmail = e }

\* the sequences that list every element of the finite set S once
Orders(S) ==
  { s \in [1..Cardinality(S) -> S] : \A i, j \in DOMAIN s : s[i] = s[j] => i = j }

(* ------------------------------ call frames ---------------------------- *)

\* the fields of a Subscription object that unsubscribe reads
NoSub == [id |-> 0, type |-> "none", unsubscribeMailTo |-> NoStr, newsletterEmail |-> 0]

\* the object for row i; the newsletterEmail relation is there only when loaded
Snapshot(rs, i, loaded) ==
  [id |-> i, type |-> rs[i].type, unsubscribeMailTo |-> rs[i].unsubscribeMailTo,
   newsletterEmail |-> IF loaded THEN rs[i].newsletterEmail ELSE 0]

NoData == [unsubscribeHttpUrl |-> NoStr, unsubscribeMailTo |-> NoStr,
           icon |-> NoStr, lastFetchedAt |-> 0]

Idle ==
  [op |-> "none", pc |-> "idle", userId |-> "none", name |-> "none", ne |-> 0,
   data |-> NoData, existing |-> 0, sub |-> NoSub, unsubscribed |-> FALSE,
   sent |-> "none", list |-> <<>>, idx |-> 0, invoked |-> <<>>, failed |-> {},
   outcome |-> "none", err |-> "none", result |-> 0, log |-> <<>>,
   prevSame |-> FALSE, prevResult |-> 0, matches |-> 0,
   handler |-> "none", names |-> <<>>, saves |-> <<>>, rowIds |-> <<>>,
   returned |-> "none", provisioned |-> FALSE]

\* the last call to complete, when it was a saveSubscription that returned an id
NoLast == [userId |-> "none", name |-> "none", result |-> 0]

\* effects a call has had on its collaborators, in order
EmailEvent(s) ==
  [kind |-> "email", id |-> s.id, to |-> ParsedTo(s.unsubscribeMailTo),
   subject |-> ParsedSubject(s.unsubscribeMailTo),
   from |-> EmailAddress(s.newsletterEmail), ok |-> TRUE]

\* a store write of kind k on row id i, and whether the store carried it out
WriteEvent(k, i, ok) ==
  [kind |-> k, id |-> i, to |-> NoStr, subject |-> "", from |-> "", ok |-> ok]

Init ==
  /\ \E k \in 0..InitRows : rows \in [1..k -> InitRowSet]
  /\ UniqueKeys(rows)
  /\ \A i, j \in DOMAIN rows : i < j => RowRank(rows[i]) < RowRank(rows[j])
  /\ nextId = Cardinality(DOMAIN rows) + 1
  /\ call = [c \in Calls |-> Idle]
  /\ started = 0
  /\ last = NoLast
  /\ emails = EmailIds

(* --------------------------- store operations -------------------------- *)

\* update(id, {status: Unsubscribed}): changes the row with that id, if any
StoreSetStatus(rs, i, st) ==
  IF i \in DOMAIN rs THEN [rs EXCEPT ![i].status = st] ELSE rs

\* StoreSetData with a fault: the update also sets the status back to Active
StoreSetData_Reactivates(rs, i, d) ==
  IF i \in DOMAIN rs
  THEN [rs EXCEPT
          ![i].unsubscribeHttpUrl = IF d.unsubscribeHttpUrl = NoStr THEN @
                                    ELSE d.unsubscribeHttpUrl,
          ![i].unsubscribeMailTo = IF d.unsubscribeMailTo = NoStr THEN @
                                   ELSE d.unsubscribeMailTo,
          ![i].icon = IF d.icon = NoStr THEN @ ELSE d.icon,
          ![i].lastFetchedAt = d.lastFetchedAt,
          ![i].status = "Active"]
  ELSE rs

\* update(id, subscriptionData): a property that is undefined is left as it is
StoreSetData(rs, i, d) ==
  IF i \in DOMAIN rs
  THEN [rs EXCEPT
          ![i].unsubscribeHttpUrl = IF d.unsubscribeHttpUrl = NoStr THEN @
                                    ELSE d.unsubscribeHttpUrl,
          ![i].unsubscribeMailTo = IF d.unsubscribeMailTo = NoStr THEN @
                                   ELSE d.unsubscribeMailTo,
          ![i].icon = IF d.icon = NoStr THEN @ ELSE d.icon,
          ![i].lastFetchedAt = d.lastFetchedAt]
  ELSE rs

\* delete(id): removes the row with that id, if any
StoreDelete(rs, i) == [j \in DOMAIN rs \ {i} |-> rs[j]]

\* save(row) of a row without id: the row is stored under a fresh id
StoreInsert(rs, i, r) == [j \in DOMAIN rs \cup {i} |-> IF j = i THEN r ELSE rs[j]]

\* the store refuses a row whose (user, name, type) is already there
Conflicts(rs, r) == \E i \in DOMAIN rs : SameKey(rs[i], r)

(* ---------------------------- unsubscribe ------------------------------ *)

\* AttemptEmail with a fault: the type of the subscription is not looked at
AttemptEmail_AnyType(s) ==
  /\ s.unsubscribeMailTo # NoStr
  /\ s.newsletterEmail # 0

\* line 138 and 141: the email executor is tried for a Newsletter subscription
\* that has an unsubscribeMailTo and a loaded newsletterEmail
AttemptEmail(s) ==
  /\ s.type = "Newsletter"
  /\ s.unsubscribeMailTo # NoStr
  /\ s.newsletterEmail # 0

\* EmailResult with a fault: only sendEmail's false counts as a failure
EmailResult_RaiseIsSuccess(r) == r # "false"

\* sendUnsubscribeEmail's result for what sendEmail did: true, false or raise
EmailResult(r) == r = "true"

\* WritePc with a fault: a Newsletter subscription is always demoted
WritePc_AlwaysDemote(s, unsubscribed) ==
  IF s.type = "Newsletter" THEN "update" ELSE "delete"

\* lines 151-161: the one store write unsubscribe goes on to
WritePc(s, unsubscribed) ==
  IF s.type = "Newsletter" /\ ~unsubscribed THEN "update" ELSE "delete"

\* unsubscribe(s) up to its first suspension: sendEmail is called when the
\* mailto target parses; a parse error makes the executor return false
EnterUnsubscribe(f, s) ==
  LET g == [f EXCEPT !.sub = s, !.unsubscribed = FALSE, !.sent = "none"]
  IN IF AttemptEmail(s) /\ ParseOk(s.unsubscribeMailTo)
     THEN [g EXCEPT !.pc = "sendEmail", !.log = Append(@, EmailEvent(s))]
     ELSE [g EXCEPT !.pc = WritePc(s, FALSE)]

\* NextItem with a fault: the items are not awaited one by one, and the next
\* item's unsubscribe is started together with item i's
NextItem_Overlapping(f, i) ==
  IF i > Len(f.list)
  THEN [f EXCEPT !.idx = i, !.pc = "done", !.outcome = "ok"]
  ELSE EnterUnsubscribe(
         [f EXCEPT !.idx = i,
                   !.invoked = [k \in DOMAIN @ |->
                                  IF k \in {i, i + 1} /\ @[k] = 0 THEN 1 ELSE @[k]]],
         f.list[i])

\* unsubscribeAll's loop at item i: past the list it returns, else it calls unsubscribe
NextItem(f, i) ==
  IF i > Len(f.list)
  THEN [f EXCEPT !.idx = i, !.pc = "done", !.outcome = "ok"]
  ELSE EnterUnsubscribe([f EXCEPT !.idx = i, !.invoked[i] = @ + 1], f.list[i])

\* AfterItem with a fault: an item's error is thrown on to unsubscribeAll's caller
AfterItem_Rethrow(f, res) ==
  IF res = "raised"
  THEN [f EXCEPT !.failed = @ \cup {f.idx}, !.pc = "done", !.outcome = "raised"]
  ELSE NextItem(f, f.idx + 1)

\* AfterItem with a fault: an item's error ends the loop
AfterItem_Abort(f, res) ==
  IF res = "raised"
  THEN [f EXCEPT !.failed = @ \cup {f.idx}, !.pc = "done", !.outcome = "ok"]
  ELSE NextItem(f, f.idx + 1)

\* lines 177-181: an item's error is caught and logged, and the loop goes on
AfterItem(f, res) ==
  NextItem([f EXCEPT !.failed = IF res = "raised" THEN @ \cup {f.idx} ELSE @],
           f.idx + 1)

\* lines 183-185: a failure of the list fetch is caught and logged
FindFailed(f) == [f EXCEPT !.pc = "done", !.outcome = "ok", !.err = "find"]

\* unsubscribe returns (res = "ok") or raises (res = "raised") to its caller
LeaveUnsubscribe(f, res, err) ==
  IF f.op = "unsubscribe"
  THEN [f EXCEPT !.pc = "done", !.outcome = res, !.err = err]
  ELSE AfterItem(f, res)

\* WriteFailed with a fault: the store's rejection is caught and unsubscribe returns
WriteFailed_Swallowed(f) == LeaveUnsubscribe(f, "ok", "none")

\* a failure of the store's update or delete inside unsubscribe is not caught
WriteFailed(f) == LeaveUnsubscribe(f, "raised", "store")

\* AfterSend with a fault: sendEmail's rejection is not caught and leaves unsubscribe
AfterSend_NoCatch(f, r) ==
  IF r = "raise"
  THEN LeaveUnsubscribe([f EXCEPT !.sent = r], "raised", "email")
  ELSE [f EXCEPT !.sent = r, !.unsubscribed = r = "true",
                 !.pc = WritePc(f.sub, r = "true")]

\* lines 143-147 with 56-65: the executor's result becomes unsubscribed; sendEmail's
\* false and its rejection both end as false, and unsubscribe goes on to its write
AfterSend(f, r) ==
  [f EXCEPT !.sent = r, !.unsubscribed = EmailResult(r),
            !.pc = WritePc(f.sub, EmailResult(r))]

\* AfterUpdate with a fault: the return is missing and the delete follows the update
AfterUpdate_FallThrough(f) == [f EXCEPT !.pc = "delete"]

\* line 154: unsubscribe returns the update's promise, so it ends with the update
AfterUpdate(f) == LeaveUnsubscribe(f, "ok", "none")

\* line 161: the delete is the last statement
AfterDelete(f) == LeaveUnsubscribe(f, "ok", "none")

(* ------------------------------- actions ------------------------------- *)

\* a completed saveSubscription notes whether the call completed just before it
\* was a saveSubscription of the same (userId, name) and what that one returned,
\* and how many rows match its (userId, name) as it returns
Close(f, rs) ==
  IF f.op = "save" /\ f.outcome = "ok"
  THEN [f EXCEPT !.prevSame = last.userId = f.userId /\ last.name = f.name,
                 !.prevResult = last.result,
                 !.matches = Cardinality({ i \in DOMAIN rs :
                                             /\ rs[i].user = f.userId
                                             /\ rs[i].name = f.name
                                             /\ rs[i].type = "Newsletter" })]
  ELSE f

Commit(c, f, rs) ==
  /\ call' = [call EXCEPT ![c] = IF f.pc = "done" THEN Close(f, rs) ELSE f]
  /\ rows' = rs
  /\ emails' = emails
  /\ last' = IF f.pc # "done" THEN last
             ELSE IF f.op = "save" /\ f.outcome = "ok"
             THEN [userId |-> f.userId, name |-> f.name, result |-> f.result]
             ELSE NoLast

\* a call starts in a slot that runs none; the slots being alike, in the first such
Running(c) == call[c].pc \notin {"idle", "done"}

Free(c) ==
  /\ ~Running(c)
  /\ started < MaxCalls
  /\ c = "c1" \/ Running("c1")

\* a caller passes the Subscription object of row i to unsubscribe
StartUnsubscribe(c, i, loaded) ==
  /\ Free(c)
  /\ i \in DOMAIN rows
  /\ started' = started + 1
  /\ Commit(c, EnterUnsubscribe([Idle EXCEPT !.op = "unsubscribe"],
                                Snapshot(rows, i, loaded)), rows)
  /\ UNCHANGED nextId

\* sendEmail resolves true or false, or rejects
SendEmailReturns(c, r) ==
  /\ call[c].pc = "sendEmail"
  /\ Commit(c, AfterSend(call[c], r), rows)
  /\ UNCHANGED <<nextId, started>>

\* lines 154-156: update(subscription.id, {status: Unsubscribed})
UpdateStatus(c, fail) ==
  /\ call[c].pc = "update"
  /\ LET f == [call[c] EXCEPT
                  !.log = Append(@, WriteEvent("update", call[c].sub.id, ~fail))]
     IN IF fail
        THEN Commit(c, WriteFailed(f), rows)
        ELSE Commit(c, AfterUpdate(f), StoreSetStatus(rows, f.sub.id, "Unsubscribed"))
  /\ UNCHANGED <<nextId, started>>

\* line 161: delete(subscription.id)
Delete(c, fail) ==
  /\ call[c].pc = "delete"
  /\ LET f == [call[c] EXCEPT
                  !.log = Append(@, WriteEvent("delete", call[c].sub.id, ~fail))]
     IN IF fail
        THEN Commit(c, WriteFailed(f), rows)
        ELSE Commit(c, AfterDelete(f), StoreDelete(rows, f.sub.id))
  /\ UNCHANGED <<nextId, started>>

\* unsubscribeAll(newsletterEmail) up to the await of find
StartUnsubscribeAll(c, e) ==
  /\ Free(c)
  /\ started' = started + 1
  /\ Commit(c, [Idle EXCEPT !.op = "unsubscribeAll", !.ne = e, !.pc = "find"], rows)
  /\ UNCHANGED nextId

\* find resolves with the bound rows, relation loaded, in some order, or rejects
FindReturns(c, fail) ==
  /\ call[c].pc = "find"
  /\ IF fail
     THEN Commit(c, FindFailed(call[c]), rows)
     ELSE \E o \in Orders(Bound(rows, call[c].ne)) :
            Commit(c, NextItem([call[c] EXCEPT
                                  !.list = [k \in DOMAIN o |-> Snapshot(rows, o[k], TRUE)],
                                  !.invoked = [k \in DOMAIN o |-> 0]], 1), rows)
  /\ UNCHANGED <<nextId, started>>

(* --------------------------- saveSubscription -------------------------- *)

\* the optional metadata a caller passes to saveSubscription
Metas ==
  { [unsubscribeHttpUrl |-> NoStr, unsubscribeMailTo |-> NoStr, icon |-> NoStr],
    [unsubscribeHttpUrl |-> <<"url">>, unsubscribeMailTo |-> <<"a", "@", "b">>,
     icon |-> <<"icon">>] }

\* lines 104-109: subscriptionData, stamped with the time of the call
SubscriptionData(meta, now) ==
  [unsubscribeHttpUrl |-> meta.unsubscribeHttpUrl,
   unsubscribeMailTo |-> meta.unsubscribeMailTo,
   icon |-> meta.icon, lastFetchedAt |-> now]

\* lines 125-131: the row handed to save; status is the column's default
NewRow(f) ==
  Row(f.name, f.userId, "Newsletter", "Active", f.data.unsubscribeMailTo,
      f.data.unsubscribeHttpUrl, f.data.icon, f.data.lastFetchedAt, f.ne)

\* line 115: the branch taken for what the lookup found (0: nothing)
SavePc(x) == IF x # 0 THEN "saveUpdate" ELSE "saveInsert"

\* what findOneBy may resolve with: one of the matching rows, or nothing
Found(rs, n, u) == IF Matching(rs, n, u) = {} THEN {0} ELSE Matching(rs, n, u)

\* a store call of saveSubscription rejects: nothing catches it
SaveRaised(f, err) == [f EXCEPT !.pc = "done", !.outcome = "raised", !.err = err]

SaveReturned(f, i) == [f EXCEPT !.pc = "done", !.outcome = "ok", !.result = i]

\* saveSubscription(input) up to the await of the lookup
StartSave(c, u, n, e, meta) ==
  /\ Free(c)
  /\ EmailUser(e) = u
  /\ started' = started + 1
  /\ Commit(c, [Idle EXCEPT !.op = "save", !.userId = u, !.name = n, !.ne = e,
                            !.data = SubscriptionData(meta, started + 1),
                            !.pc = "lookup"], rows)
  /\ UNCHANGED nextId

\* lines 111-115: getSubscriptionByNameAndUserId resolves or rejects
SaveLookup(c, fail) ==
  /\ call[c].pc = "lookup"
  /\ IF fail
     THEN Commit(c, SaveRaised(call[c], "store"), rows)
     ELSE \E x \in Found(rows, call[c].name, call[c].userId) :
            Commit(c, [call[c] EXCEPT !.existing = x, !.pc = SavePc(x)], rows)
  /\ UNCHANGED <<nextId, started>>

\* lines 117-122: update(existingSubscription.id, subscriptionData)
SaveUpdate(c, fail) ==
  /\ call[c].pc = "saveUpdate"
  /\ IF fail
     THEN Commit(c, SaveRaised(call[c], "store"), rows)
     ELSE Commit(c, SaveReturned(call[c], call[c].existing),
                 StoreSetData(rows, call[c].existing, call[c].data))
  /\ UNCHANGED <<nextId, started>>

\* lines 125-133: save({...subscriptionData, name, newsletterEmail, user, type})
SaveInsert(c, fail) ==
  /\ call[c].pc = "saveInsert"
  /\ IF fail
     THEN Commit(c, SaveRaised(call[c], "store"), rows) /\ UNCHANGED nextId
     ELSE IF Conflicts(rows, NewRow(call[c]))
     THEN Commit(c, SaveRaised(call[c], "conflict"), rows) /\ UNCHANGED nextId
     ELSE /\ Commit(c, SaveReturned(call[c], nextId),
                    StoreInsert(rows, nextId, NewRow(call[c])))
          /\ nextId' = nextId + 1
  /\ UNCHANGED started

(* ---------------------------- handleSubscribe -------------------------- *)

\* the handlers: the base class and the four that getSubscribeHandler returns
Handlers == {"base", "axios_essentials", "morning_brew", "milk_road", "money_stuff"}

\* what _subscribe resolves with
HandlerNames(h) ==
  CASE h = "axios_essentials" -> <<"Axios AM", "Axios PM", "Axios Finish Line">>
    [] h = "morning_brew" -> <<"Morning Brew">>
    [] h = "milk_road" -> <<"Milk Road">>
    [] h = "money_stuff" -> <<"Money Stuff">>
    [] OTHER -> <<>>

\* the base class makes no network call; the others await one that may reject
ProviderMayFail(h) == h # "base"

\* findOneBy({user: {id: userId}}): the user's NewsletterEmails
EmailsOf(em, u) == { e \in em : EmailUser(e) = u }

\* createNewsletterEmail(userId): the id of the address provisioned for the user
NewEmail(u) == CHOOSE e \in EmailIds : EmailUser(e) = u

\* HandleRow with a fault: the row is not linked to the NewsletterEmail
HandleRow_NoEmail(f, n) ==
  Row(n, f.userId, "Newsletter", "Active", NoStr, NoStr, NoStr, 0, 0)

\* lines 224-229: the row handed to save for a name; type is the column's default
HandleRow(f, n) ==
  Row(n, f.userId, "Newsletter", "Active", NoStr, NoStr, NoStr, 0, f.ne)

\* lines 216-219 and 234-237: handleSubscribe returns null
HandleNull(f) ==
  [f EXCEPT !.pc = "done", !.outcome = "ok", !.returned = "null"]

\* a rejection inside the try block is caught and logged, and null is returned
HandleCaught(f, err) == HandleNull([f EXCEPT !.err = err])

\* line 233: the promise of all saves is returned without await, so the first
\* save to reject rejects handleSubscribe: the catch of line 234 is not in its way
SaveRejected(f, err) ==
  IF f.outcome = "none" THEN [f EXCEPT !.outcome = "raised", !.err = err] ELSE f

\* line 233: when every save has resolved handleSubscribe resolves with the rows
AllSaved(f) ==
  IF f.outcome = "none" /\ \A k \in DOMAIN f.saves : f.saves[k] = "saved"
  THEN [f EXCEPT !.outcome = "ok", !.returned = "rows"]
  ELSE f

\* the saves go on in the store until each has settled, whatever was returned
Settled(f) ==
  IF \A k \in DOMAIN f.saves : f.saves[k] # "pending"
  THEN [f EXCEPT !.pc = "done"] ELSE f

\* Subscribed with a fault: the empty list is not tested and the saves of no
\* names resolve with no rows
Subscribed_NoEmptyCheck(f, names) ==
  IF Len(names) = 0
  THEN [f EXCEPT !.names = names, !.pc = "done", !.outcome = "ok",
                 !.returned = "rows"]
  ELSE [f EXCEPT !.names = names, !.pc = "saving",
                 !.saves = [k \in DOMAIN names |-> "pending"],
                 !.rowIds = [k \in DOMAIN names |-> 0]]

\* lines 215-233: _subscribe has resolved with names; an empty list ends in null,
\* else one save per name is issued
Subscribed(f, names) ==
  IF Len(names) = 0
  THEN HandleNull([f EXCEPT !.names = names])
  ELSE [f EXCEPT !.names = names, !.pc = "saving",
                 !.saves = [k \in DOMAIN names |-> "pending"],
                 !.rowIds = [k \in DOMAIN names |-> 0]]

HCommit(c, f, rs, em) ==
  /\ call' = [call EXCEPT ![c] = f]
  /\ rows' = rs
  /\ emails' = em
  /\ last' = IF f.pc = "done" THEN NoLast ELSE last

\* handleSubscribe(userId, name) up to the await of the NewsletterEmail lookup
StartHandle(c, u, h) ==
  /\ Free(c)
  /\ started' = started + 1
  /\ HCommit(c, [Idle EXCEPT !.op = "handle", !.userId = u, !.handler = h,
                             !.pc = "findEmail"], rows, emails)
  /\ UNCHANGED nextId

\* lines 209-215: the lookup resolves with one of the user's NewsletterEmails and
\* _subscribe is called, or with none and createNewsletterEmail is called, or rejects
HandleFindEmail(c, fail) ==
  /\ call[c].pc = "findEmail"
  /\ IF fail
     THEN HCommit(c, HandleCaught(call[c], "store"), rows, emails)
     ELSE IF EmailsOf(emails, call[c].userId) = {}
     THEN HCommit(c, [call[c] EXCEPT !.pc = "createEmail"], rows, emails)
     ELSE \E e \in EmailsOf(emails, call[c].userId) :
            HCommit(c, [call[c] EXCEPT !.ne = e, !.pc = "subscribe"], rows, emails)
  /\ UNCHANGED <<nextId, started>>

\* line 212: createNewsletterEmail resolves with the new NewsletterEmail, or rejects
HandleCreateEmail(c, fail) ==
  /\ call[c].pc = "createEmail"
  /\ IF fail
     THEN HCommit(c, HandleCaught(call[c], "create"), rows, emails)
     ELSE HCommit(c, [call[c] EXCEPT !.ne = NewEmail(call[c].userId),
                                     !.provisioned = TRUE, !.pc = "subscribe"],
                  rows, emails \cup {NewEmail(call[c].userId)})
  /\ UNCHANGED <<nextId, started>>

\* lines 215-233: _subscribe resolves with the handler's names, or rejects
HandleSubscribed(c, fail) ==
  /\ call[c].pc = "subscribe"
  /\ fail => ProviderMayFail(call[c].handler)
  /\ IF fail
     THEN HCommit(c, HandleCaught(call[c], "provider"), rows, emails)
     ELSE HCommit(c, Subscribed(call[c], HandlerNames(call[c].handler)), rows, emails)
  /\ UNCHANGED <<nextId, started>>

\* lines 224-229: the save of the row for the name at place k settles
HandleSave(c, k, fail) ==
  /\ call[c].pc = "saving"
  /\ k \in DOMAIN call[c].saves
  /\ call[c].saves[k] = "pending"
  /\ LET f == call[c]
         r == HandleRow(f, f.names[k])
     IN IF fail
        THEN /\ HCommit(c, Settled(SaveRejected([f EXCEPT !.saves[k] = "failed"],
                                                "store")), rows, emails)
             /\ UNCHANGED nextId
        ELSE IF Conflicts(rows, r)
        THEN /\ HCommit(c, Settled(SaveRejected([f EXCEPT !.saves[k] = "conflict"],
                                                "conflict")), rows, emails)
             /\ UNCHANGED nextId
        ELSE /\ HCommit(c, Settled(AllSaved([f EXCEPT !.saves[k] = "saved",
                                                      !.rowIds[k] = nextId])),
                        StoreInsert(rows, nextId, r), emails)
             /\ nextId' = nextId + 1
  /\ UNCHANGED started

(* ----------------------------- specification --------------------------- *)

Step(c) ==
  \/ \E i \in DOMAIN rows, loaded \in BOOLEAN : StartUnsubscribe(c, i, loaded)
  \/ \E r \in {"true", "false", "raise"} : SendEmailReturns(c, r)
  \/ \E fail \in BOOLEAN : UpdateStatus(c, fail)
  \/ \E fail \in BOOLEAN : Delete(c, fail)
  \/ \E e \in EmailIds : StartUnsubscribeAll(c, e)
  \/ \E fail \in BOOLEAN : FindReturns(c, fail)
  \/ \E u \in Users, n \in Names, e \in EmailIds, meta \in Metas :
       StartSave(c, u, n, e, meta)
  \/ \E fail \in BOOLEAN : SaveLookup(c, fail)
  \/ \E fail \in BOOLEAN : SaveUpdate(c, fail)
  \/ \E fail \in BOOLEAN : SaveInsert(c, fail)

\* calls run concurrently in every slot
Next == \E c \in Calls : Step(c)

Spec == Init /\ [][Next]_vars

\* one call at a time: each call starts after the one before it has completed
SeqNext == Step("c1")

SeqSpec == Init /\ [][SeqNext]_vars

\* the signup path: the store is empty and a user may have no NewsletterEmail yet
SignupInit ==
  /\ rows = <<>>
  /\ nextId = 1
  /\ call = [c \in Calls |-> Idle]
  /\ started = 0
  /\ last = NoLast
  /\ emails \in SUBSET EmailIds

\* calls of handleSubscribe made one after the other
SignupNext ==
  \/ \E u \in Users, h \in Handlers : StartHandle("c1", u, h)
  \/ \E fail \in BOOLEAN : HandleFindEmail("c1", fail)
  \/ \E fail \in BOOLEAN : HandleCreateEmail("c1", fail)
  \/ \E fail \in BOOLEAN : HandleSubscribed("c1", fail)
  \/ \E k \in DOMAIN call["c1"].saves, fail \in BOOLEAN : HandleSave("c1", k, fail)

SignupSpec == SignupInit /\ [][SignupNext]_vars

(* ------------------------------- claims -------------------------------- *)

\* call c is a direct call of unsubscribe that has completed
Unsubscribed(c) == call[c].op = "unsubscribe" /\ call[c].pc = "done"

\* the number of effects of kind k that call c has had
Count(c, k) ==
  Cardinality({ i \in DOMAIN call[c].log : call[c].log[i].kind = k })

\* the last effect call c has had
LastEvent(c) == call[c].log[Len(call[c].log)]

\* C1: unsubscribe of an Rss subscription never sends an email, never makes an
\* HTTP request and never updates a status, whatever unsubscribeMailTo and the
\* newsletterEmail relation are; its one effect is the delete of the
\* subscription's row, and when the delete succeeds the row is gone.
C1_RssDeletesOnly ==
  \A c \in Calls :
    call[c].op = "unsubscribe" /\ call[c].sub.type = "Rss" =>
      /\ Count(c, "email") = 0
      /\ Count(c, "http") = 0
      /\ Count(c, "update") = 0
      /\ call[c].pc = "done" =>
           /\ Len(call[c].log) = 1
           /\ LastEvent(c).kind = "delete"
           /\ LastEvent(c).id = call[c].sub.id
           /\ call[c].outcome = "ok" => call[c].sub.id \notin DOMAIN rows

C1_Witness ==
  \E c \in Calls :
    /\ Unsubscribed(c)
    /\ call[c].sub.type = "Rss"
    /\ ParseOk(call[c].sub.unsubscribeMailTo)
    /\ call[c].sub.newsletterEmail # 0
    /\ call[c].outcome = "ok"
    /\ Count(c, "delete") = 1

\* the email attempt of a completed unsubscribe did not succeed: none was made,
\* the mailto target did not parse, or sendEmail returned false or raised
NoEmailSuccess(c) == call[c].sent # "true"

\* C2: unsubscribe of a Newsletter subscription with no successful email
\* attempt (none made, or the executor returned false) issues the update of the
\* row's status to Unsubscribed and no delete; when the update succeeds the row
\* is still there with status Unsubscribed.
C2_NewsletterDemoted ==
  \A c \in Calls :
    Unsubscribed(c) /\ call[c].sub.type = "Newsletter" /\ NoEmailSuccess(c) =>
      /\ Count(c, "delete") = 0
      /\ Count(c, "update") = 1
      /\ LastEvent(c).kind = "update"
      /\ LastEvent(c).id = call[c].sub.id
      /\ call[c].outcome = "ok" =>
           /\ call[c].sub.id \in DOMAIN rows
           /\ rows[call[c].sub.id].status = "Unsubscribed"

C2_Witness ==
  \E c \in Calls :
    /\ Unsubscribed(c)
    /\ call[c].sub.type = "Newsletter"
    /\ call[c].sent = "false"
    /\ call[c].outcome = "ok"
    /\ call[c].sub.id \in DOMAIN rows
    /\ rows[call[c].sub.id].status = "Unsubscribed"

\* C3: unsubscribe of a Newsletter subscription whose email executor returned
\* true issues the delete of the row and no status update; when the delete
\* succeeds the row is gone.
C3_NewsletterDeleted ==
  \A c \in Calls :
    Unsubscribed(c) /\ call[c].sub.type = "Newsletter" /\ call[c].sent = "true" =>
      /\ Count(c, "update") = 0
      /\ Count(c, "delete") = 1
      /\ LastEvent(c).kind = "delete"
      /\ LastEvent(c).id = call[c].sub.id
      /\ call[c].outcome = "ok" => call[c].sub.id \notin DOMAIN rows

C3_Witness ==
  \E c \in Calls :
    /\ Unsubscribed(c)
    /\ call[c].sub.type = "Newsletter"
    /\ call[c].sent = "true"
    /\ call[c].outcome = "ok"
    /\ call[c].sub.id \notin DOMAIN rows

\* C4: a completed unsubscribe has issued exactly one store write, a status
\* update or a delete, never both and never neither, and while it runs it has
\* issued none.
C4_ExactlyOneWrite ==
  \A c \in Calls :
    call[c].op = "unsubscribe" =>
      Count(c, "update") + Count(c, "delete") = IF call[c].pc = "done" THEN 1 ELSE 0

C4_Witness ==
  \E c \in Calls :
    /\ Unsubscribed(c)
    /\ call[c].sub.type = "Newsletter"
    /\ call[c].sent = "raise"
    /\ Count(c, "email") = 1
    /\ Count(c, "update") = 1
    /\ Count(c, "delete") = 0

\* a store write that call c issued was not carried out
WriteRejected(c) ==
  \E i \in DOMAIN call[c].log :
    call[c].log[i].kind \in {"update", "delete"} /\ ~call[c].log[i].ok

\* the email attempt of call c was made and failed: the mailto target did not
\* parse, or sendEmail returned false or raised
EmailAttemptFailed(c) ==
  /\ call[c].sub.type = "Newsletter"
  /\ call[c].sub.unsubscribeMailTo # NoStr
  /\ call[c].sub.newsletterEmail # 0
  /\ ~ParseOk(call[c].sub.unsubscribeMailTo) \/ call[c].sent \in {"false", "raise"}

\* C5 as stated: unsubscribe returns normally whatever fails inside it, the
\* store's status update or delete included.
C5_AlwaysReturns ==
  \A c \in Calls : Unsubscribed(c) => call[c].outcome = "ok"

\* C5 amended: no failure of address parsing or of sending the email escapes
\* unsubscribe; it raises to its caller only when the store rejected its write.
C5_RaisesOnlyOnStoreFailure ==
  \A c \in Calls :
    call[c].op = "unsubscribe" =>
      /\ call[c].outcome = "raised" => WriteRejected(c)
      /\ call[c].pc = "done" /\ ~WriteRejected(c) => call[c].outcome = "ok"

C5_Witness ==
  \E c \in Calls :
    /\ Unsubscribed(c)
    /\ EmailAttemptFailed(c)
    /\ ~ParseOk(call[c].sub.unsubscribeMailTo)
    /\ ~WriteRejected(c)
    /\ call[c].outcome = "ok"

\* C6: a failed email attempt (parse error, sendEmail false or raising) puts
\* unsubscribe on the demote path, its write being the status update; a write
\* the store rejects, update or delete, is raised to unsubscribe's caller.
C6_SwallowsOnlyAttemptFailures ==
  \A c \in Calls :
    Unsubscribed(c) =>
      /\ EmailAttemptFailed(c) => LastEvent(c).kind = "update"
      /\ WriteRejected(c) => call[c].outcome = "raised" /\ call[c].err = "store"

C6_Witness ==
  \E c \in Calls :
    /\ Unsubscribed(c)
    /\ call[c].sent = "raise"
    /\ LastEvent(c).kind = "update"
    /\ ~LastEvent(c).ok
    /\ call[c].outcome = "raised"

\* the store writes call c issued for the subscription at place i of its list
ItemWrites(c, i) ==
  { j \in DOMAIN call[c].log :
      /\ call[c].log[j].kind \in {"update", "delete"}
      /\ call[c].log[j].id = call[c].list[i].id }

\* C7: unsubscribeAll never raises: when the fetch of the list fails, when an
\* item's unsubscribe raises and when every item's does, it completes normally.
C7_UnsubscribeAllNeverRaises ==
  \A c \in Calls :
    call[c].op = "unsubscribeAll" =>
      /\ call[c].outcome # "raised"
      /\ call[c].pc = "done" => call[c].outcome = "ok"

C7_Witness ==
  \E c \in Calls :
    /\ call[c].op = "unsubscribeAll"
    /\ call[c].pc = "done"
    /\ Len(call[c].list) >= 2
    /\ call[c].failed = DOMAIN call[c].list
    /\ call[c].outcome = "ok"

\* C8: when unsubscribeAll completes, unsubscribe has been invoked exactly once
\* for each subscription of the fetched list and has issued its one write for
\* it, whichever items raised.
C8_EveryItemProcessed ==
  \A c \in Calls :
    call[c].op = "unsubscribeAll" /\ call[c].pc = "done" =>
      \A i \in DOMAIN call[c].list :
        /\ call[c].invoked[i] = 1
        /\ Cardinality(ItemWrites(c, i)) = 1

C8_Witness ==
  \E c \in Calls :
    /\ call[c].op = "unsubscribeAll"
    /\ call[c].pc = "done"
    /\ Len(call[c].list) >= 2
    /\ call[c].failed = {1}
    /\ call[c].invoked[2] = 1
    /\ \E j \in ItemWrites(c, 2) : call[c].log[j].ok

\* C9: a saveSubscription that returns right after a saveSubscription of the
\* same (userId, name) returned, returns the id that one returned, and exactly
\* one Newsletter row then matches (userId, name).
C9_SecondSaveUpdates ==
  \A c \in Calls :
    call[c].op = "save" /\ call[c].pc = "done" /\ call[c].outcome = "ok"
      /\ call[c].prevSame =>
        /\ call[c].result = call[c].prevResult
        /\ call[c].matches = 1

C9_Witness ==
  \E c \in Calls :
    /\ call[c].op = "save"
    /\ call[c].pc = "done"
    /\ call[c].outcome = "ok"
    /\ call[c].prevSame
    /\ call[c].existing = call[c].prevResult
    /\ call[c].result \in DOMAIN rows
    /\ rows[call[c].result].lastFetchedAt = call[c].data.lastFetchedAt

\* C10 as stated: however two saveSubscription calls interleave, no two rows
\* share (user, name, type) and neither call raises over the conflict.
C10_BenignConflict ==
  /\ UniqueKeys(rows)
  /\ \A c \in Calls :
       ~(call[c].op = "save" /\ call[c].outcome = "raised" /\ call[c].err = "conflict")

\* C11 as stated: when handleSubscribe saves a name for which the user already
\* has a Newsletter row, no second row with that (user, name, type) appears and
\* the save is not refused: the existing row is updated.
C11_ResubscribeUpdates ==
  /\ UniqueKeys(rows)
  /\ \A c \in Calls :
       call[c].op = "handle" =>
         \A k \in DOMAIN call[c].saves : call[c].saves[k] # "conflict"

\* C12 as stated: handleSubscribe never throws to its caller, a save that fails
\* after the combined promise was handed back included.
C12_HandleNeverThrows ==
  \A c \in Calls : call[c].op = "handle" => call[c].outcome # "raised"

\* C13: when the provider call resolves with an empty list, handleSubscribe
\* returns null and issues no save, so it creates no Subscription row.
C13_EmptyListIsNull ==
  \A c \in Calls :
    call[c].op = "handle" /\ call[c].pc = "done" /\ call[c].err = "none"
      /\ Len(HandlerNames(call[c].handler)) = 0 =>
        /\ call[c].outcome = "ok"
        /\ call[c].returned = "null"
        /\ call[c].saves = <<>>
        /\ call[c].rowIds = <<>>

C13_Witness ==
  \E c \in Calls :
    /\ call[c].op = "handle"
    /\ call[c].pc = "done"
    /\ call[c].handler = "base"
    /\ call[c].provisioned
    /\ call[c].err = "none"
    /\ call[c].returned = "null"

\* the Newsletter rows of user u named n
RowsNamed(u, n) ==
  { i \in DOMAIN rows :
      rows[i].user = u /\ rows[i].name = n /\ rows[i].type = "Newsletter" }

\* C14: when the provider call resolves with names and every save succeeds,
\* handleSubscribe returns the rows, and for each name there is exactly one row,
\* the one it created: Active, of the given user and linked to the resolved
\* NewsletterEmail, which is the user's existing one when there was one and the
\* newly provisioned one otherwise.
C14_OneActiveRowPerName ==
  \A c \in Calls :
    call[c].op = "handle" =>
      /\ call[c].pc = "createEmail" => EmailsOf(emails, call[c].userId) = {}
      /\ call[c].ne # 0 => call[c].ne \in EmailsOf(emails, call[c].userId)
      /\ call[c].saves # <<>> /\ (\A k \in DOMAIN call[c].saves : call[c].saves[k] = "saved") =>
           /\ call[c].outcome = "ok"
           /\ call[c].returned = "rows"
           /\ call[c].names = HandlerNames(call[c].handler)
           /\ \A k \in DOMAIN call[c].names :
                /\ RowsNamed(call[c].userId, call[c].names[k]) = {call[c].rowIds[k]}
                /\ rows[call[c].rowIds[k]].status = "Active"
                /\ rows[call[c].rowIds[k]].newsletterEmail = call[c].ne
           /\ \A j, k \in DOMAIN call[c].rowIds :
                call[c].rowIds[j] = call[c].rowIds[k] => j = k

C14_Witness ==
  \E c \in Calls :
    /\ call[c].op = "handle"
    /\ call[c].pc = "done"
    /\ call[c].handler = "axios_essentials"
    /\ call[c].provisioned
    /\ call[c].returned = "rows"
    /\ Cardinality(DOMAIN rows) = 3

(* ------------------- the email executor on its inputs ------------------ *)

\* unsubscribeMailTo values handed to the executor: with and without an address,
\* an '@', a query and a subject
MailInputs ==
  MailTos \cup { <<"?", "subject=Bye">>, <<"a", "@", "b", "?">>,
                 <<"a", "b", "?", "subject=Bye">> }

\* one stored row of user u1 with any of these values
MailInit ==
  /\ \E ty \in Types, s \in MailInputs, e \in {0, 1} :
       rows = <<Row("n1", "u1", ty, "Active", s, NoStr, NoStr, 0, e)>>
  /\ nextId = 2
  /\ call = [c \in Calls |-> Idle]
  /\ started = 0
  /\ last = NoLast
  /\ emails = EmailIds

\* unsubscribe calls made one after the other
MailNext ==
  \/ \E i \in 1..nextId, loaded \in BOOLEAN : StartUnsubscribe("c1", i, loaded)
  \/ \E r \in {"true", "false", "raise"} : SendEmailReturns("c1", r)
  \/ \E fail \in BOOLEAN : UpdateStatus("c1", fail)
  \/ \E fail \in BOOLEAN : Delete("c1", fail)

MailSpec == MailInit /\ [][MailNext]_vars

\* the sendEmail calls a call has made
EmailsSent(c) ==
  { k \in DOMAIN call[c].log : call[c].log[k].kind = "email" }

\* the text before the first "?" of s
AddressPart(s) ==
  IF QueryPos(s, 1) = 0 THEN s ELSE SubSeq(s, 1, QueryPos(s, 1) - 1)

\* C15: the email executor never throws and reports success only when sendEmail
\* resolved true: a target whose address part is empty or has no '@' gives false
\* without a sendEmail call, sendEmail's false or rejection gives false, and a
\* message that is sent goes to the parsed address with the parsed subject (the
\* default "Unsubscribe" when the target names none) from the newsletter's address.
C15_ExecutorContract ==
  \A c \in Calls :
    call[c].op = "unsubscribe" =>
      LET s == call[c].sub.unsubscribeMailTo
      IN /\ call[c].err # "email"
         /\ call[c].unsubscribed => call[c].sent = "true"
         /\ call[c].sent # "none" => EmailsSent(c) # {}
         /\ AddressPart(s) = <<>> \/ (\A i \in DOMAIN AddressPart(s) : AddressPart(s)[i] # "@") =>
              EmailsSent(c) = {} /\ ~call[c].unsubscribed
         /\ \A k \in EmailsSent(c) :
              /\ call[c].log[k].from = EmailAddress(call[c].sub.newsletterEmail)
              /\ call[c].sub.newsletterEmail # 0
              /\ s = <<"a", "@", "b">> =>
                   call[c].log[k].to = s /\ call[c].log[k].subject = "Unsubscribe"
              /\ s = <<"a", "@", "b", "?">> =>
                   call[c].log[k].to = s /\ call[c].log[k].subject = "Unsubscribe"
              /\ s = <<"a", "@", "b", "?", "subject=Bye">> =>
                   call[c].log[k].to = <<"a", "@", "b">> /\ call[c].log[k].subject = "Bye"
              /\ s \in { <<"a", "@", "b">>, <<"a", "@", "b", "?">>,
                         <<"a", "@", "b", "?", "subject=Bye">> }

C15_Witness ==
  \E c \in Calls :
    /\ call[c].op = "unsubscribe"
    /\ call[c].pc = "done"
    /\ call[c].outcome = "ok"
    /\ call[c].sent = "raise"
    /\ ~call[c].unsubscribed
    /\ \E k \in EmailsSent(c) : call[c].log[k].subject = "Bye"

\* the items of unsubscribeAll call c whose unsubscribe has been invoked and has
\* not yet issued its store write
InFlight(c) ==
  { i \in DOMAIN call[c].list : call[c].invoked[i] >= 1 /\ ItemWrites(c, i) = {} }

\* C16: unsubscribeAll processes the fetched subscriptions one at a time: at most
\* one item's unsubscribe is in flight, an item's unsubscribe is invoked only
\* after every earlier item's has issued its write (carried out or rejected),
\* and no email send or store write of an item comes before one of an earlier item.
C16_OneAtATime ==
  \A c \in Calls :
    call[c].op = "unsubscribeAll" =>
      /\ Cardinality(InFlight(c)) <= 1
      /\ \A i \in DOMAIN call[c].list :
           call[c].invoked[i] >= 1 => \A j \in 1..(i - 1) : ItemWrites(c, j) # {}
      /\ \A k1, k2 \in DOMAIN call[c].log : \A i1, i2 \in DOMAIN call[c].list :
           /\ k1 < k2
           /\ call[c].log[k1].id = call[c].list[i1].id
           /\ call[c].log[k2].id = call[c].list[i2].id
           => i1 <= i2

C16_Witness ==
  \E c \in Calls :
    /\ call[c].op = "unsubscribeAll"
    /\ Len(call[c].list) >= 2
    /\ call[c].idx = 2
    /\ call[c].pc = "sendEmail"
    /\ InFlight(c) = {2}
    /\ ItemWrites(c, 1) # {}

\* C17: the step in which saveSubscription updates the row it found changes, of
\* that row, at most unsubscribeHttpUrl, unsubscribeMailTo, icon and
\* lastFetchedAt: status, name, type, user and newsletterEmail stay as they
\* were (an Unsubscribed row stays Unsubscribed), no other row changes and no
\* row is added or removed.
C17_UpdateKeepsIdentity ==
  [][\A c \in Calls :
       call[c].op = "save" /\ call[c].pc = "saveUpdate" /\ call'[c].pc = "done" =>
         /\ DOMAIN rows' = DOMAIN rows
         /\ \A i \in DOMAIN rows :
              /\ i # call[c].existing => rows'[i] = rows[i]
              /\ rows'[i].status = rows[i].status
              /\ rows'[i].name = rows[i].name
              /\ rows'[i].type = rows[i].type
              /\ rows'[i].user = rows[i].user
              /\ rows'[i].newsletterEmail = rows[i].newsletterEmail]_vars

C17_Witness ==
  \E c \in Calls :
    /\ call[c].op = "save"
    /\ call[c].pc = "done"
    /\ call[c].outcome = "ok"
    /\ call[c].existing \in DOMAIN rows
    /\ rows[call[c].existing].status = "Unsubscribed"
    /\ rows[call[c].existing].lastFetchedAt = call[c].data.lastFetchedAt
    /\ rows[call[c].existing].unsubscribeMailTo = <<"a", "@", "b">>

\* C18: when unsubscribeAll(newsletterEmail) has completed, its fetch of the
\* list did not fail and none of its store writes was rejected, no row of that
\* user and newsletter email is Active: every subscription of the list is gone
\* or Unsubscribed.
C18_NoneLeftActive ==
  \A c \in Calls :
    call[c].op = "unsubscribeAll" /\ call[c].pc = "done" /\ call[c].err # "find"
      /\ ~WriteRejected(c) =>
        /\ \A i \in DOMAIN rows :
             rows[i].user = EmailUser(call[c].ne) /\ rows[i].newsletterEmail = call[c].ne
               => rows[i].status # "Active"
        /\ \A k \in DOMAIN call[c].list :
             \/ call[c].list[k].id \notin DOMAIN rows
             \/ rows[call[c].list[k].id].status = "Unsubscribed"

C18_Witness ==
  \E c \in Calls :
    /\ call[c].op = "unsubscribeAll"
    /\ call[c].pc = "done"
    /\ call[c].err # "find"
    /\ ~WriteRejected(c)
    /\ \E k \in DOMAIN call[c].list : call[c].list[k].id \notin DOMAIN rows
    /\ \E k \in DOMAIN call[c].list :
         /\ call[c].list[k].id \in DOMAIN rows
         /\ rows[call[c].list[k].id].status = "Unsubscribed"

\* C19 as stated: a handleSubscribe call that does not return the created rows
\* (it returns null or fails) has created no Subscription row: when one of the
\* concurrent saves fails, no other name's row is persisted.
C19_AllOrNothing ==
  \A c \in Calls :
    call[c].op = "handle" /\ call[c].outcome # "none" /\ call[c].returned # "rows" =>
      \A k \in DOMAIN call[c].saves : call[c].saves[k] # "saved"

\* C20 as stated: however saveSubscription interleaves with unsubscribe and
\* unsubscribeAll, the id a saveSubscription returns without error is the id of
\* a row that is in the store at the moment the call returns.
C20_ReturnedIdExists ==
  [][\A c \in Calls :
       /\ call[c].pc # "done"
       /\ call'[c].op = "save"
       /\ call'[c].pc = "done"
       /\ call'[c].outcome = "ok"
       => call'[c].result \in DOMAIN rows']_vars

====
